---- MODULE Spec2Model ----
(***************************************************************************)
(* State-machine model of the authentication subsystem of                  *)
(* node-solid-server: the per-issuer relying-party client manager          *)
(* (lib/oidc-rp-client.js), the authorization-code callback                *)
(* (lib/handlers/oidc.js in its two revisions), local signin / signout     *)
(* (lib/api/accounts) and the password account store (lib/user-store.js).  *)
(*                                                                         *)
(* JavaScript strings are sequences of one-character strings, so that      *)
(* encodeURIComponent / decodeURIComponent are computed, not assumed.      *)
(* The JavaScript value undefined is the one-element sequence Undefined:   *)
(* it behaves like the text "undefined" under string concatenation, as in  *)
(* JavaScript, and is falsy.                                               *)
(***************************************************************************)
EXTENDS Integers, Sequences, FiniteSets, TLC

VARIABLES
  tasks,          \* pending promise chains (one slot per in-flight chain)
  store,          \* the durable client store: a set of client records
  trustedClient,  \* OidcRpClient.trustedClient.client
  regSeq,         \* number of dynamic registrations granted so far
  cfiLog,         \* settled clientForIssuer calls: what each caller received
  ncalls,         \* requests and calls started so far
  session,        \* req.session, per session id
  users,          \* the 'users' collection of the account store
  ldpAuth,        \* ldp.auth
  lastRes,        \* the last response sent on each session
  authFailures,   \* signin requests refused for their credentials, with the answer
  usersByEmail,   \* the 'users-by-email' collection of the account store
  creating,       \* pending createUser promise chains
  lastCreate,     \* how the last settled createUser call settled
  lastAuthUrl,    \* the last authUrl call: its arguments and what it returned
  authRequest     \* the last authRequest the provider's authenticate hook returned

vars == <<tasks, store, trustedClient, regSeq, cfiLog, ncalls,
          session, users, ldpAuth, lastRes, authFailures,
          usersByEmail, creating, lastCreate, lastAuthUrl, authRequest>>

\* What the request handlers and the client manager never touch.
acctVars == <<usersByEmail, creating, lastCreate, lastAuthUrl,
              authRequest>>

-----------------------------------------------------------------------------
(* Bounds of the model *)

\* Requests (calls of clientForIssuer, in the client manager on its own) that
\* arrive in one run; each has its own promise chain.
MaxCalls == 2

\* Promise chains of request handlers in flight at once.
MaxInFlight == 1

TaskIds == DOMAIN tasks

-----------------------------------------------------------------------------
(* Strings *)

Undefined == <<"undefined">>

Truthy(s) == s # Undefined /\ s # <<>>

\* encodeURIComponent on one character: unreserved characters are kept,
\* everything else is percent-encoded.
EncodeChar(c) ==
  CASE c = ":" -> <<"%", "3", "A">>
    [] c = "/" -> <<"%", "2", "F">>
    [] c = "%" -> <<"%", "2", "5">>
    [] c = "@" -> <<"%", "4", "0">>
    [] OTHER   -> <<c>>

RECURSIVE EncodeURIComponent(_)
EncodeURIComponent(s) ==
  IF s = <<>> THEN <<>>
  ELSE EncodeChar(Head(s)) \o EncodeURIComponent(Tail(s))

\* What decodeURIComponent throws on a malformed escape.
URIError == <<"URIError">>

\* The character a %XY escape stands for; "?" for an escape that is none.
DecodeEscape(x, y) ==
  CASE x = "3" /\ y = "A" -> ":"
    [] x = "2" /\ y = "F" -> "/"
    [] x = "2" /\ y = "5" -> "%"
    [] x = "4" /\ y = "0" -> "@"
    [] OTHER -> "?"

RECURSIVE DecodeURIComponent(_)
DecodeURIComponent(s) ==
  IF s = <<>> THEN <<>>
  ELSE IF Head(s) # "%"
       THEN LET rest == DecodeURIComponent(Tail(s))
            IN IF rest = URIError THEN URIError ELSE <<Head(s)>> \o rest
  ELSE IF Len(s) < 3 \/ DecodeEscape(s[2], s[3]) = "?" THEN URIError
  ELSE LET rest == DecodeURIComponent(SubSeq(s, 4, Len(s)))
       IN IF rest = URIError THEN URIError
          ELSE <<DecodeEscape(s[2], s[3])>> \o rest

-----------------------------------------------------------------------------
(* Issuers and client records *)

TrustedIssuer == <<"h", ":", "/", "l">>
OtherIssuer   == <<"h", ":", "/", "o">>
Issuers == {TrustedIssuer, OtherIssuer}

BaseRedirectUri == <<"h", ":", "/", "s", "/", "r", "p">>

\* new OIDCExpressClient() with no configuration: every field undefined.
\* client_id 0 stands for "no client id".
NoClient == [issuer |-> Undefined, client_id |-> 0, redirect_uri |-> Undefined]

\* The pre-registered client id of the local configuration (argv.oidc).
PresetClientId == 100

LocalConfigs ==
  { [issuer |-> TrustedIssuer, client_id |-> id, redirect_uri |-> BaseRedirectUri]
      : id \in {0, PresetClientId} }

\* OIDClientStore.get: the record stored under the issuer, or null.
ClientsGet(issuer) ==
  IF \E c \in store : c.issuer = issuer
  THEN CHOOSE c \in store : c.issuer = issuer
  ELSE NoClient

\* OIDClientStore.put: upsert keyed by the client's issuer.
ClientsPut(client) ==
  {c \in store : c.issuer # client.issuer} \cup {client}

redirectUriForIssuer(issuer, baseRedirectUri, isTrustedClient) ==
  IF isTrustedClient
  THEN baseRedirectUri
  ELSE baseRedirectUri \o <<"/">> \o EncodeURIComponent(issuer)

-----------------------------------------------------------------------------
(* Accounts *)

\* bcrypt reads at most the first 72 bytes of the password it is given.
BcryptMaxBytes == 72

BcryptKey(password) ==
  IF Len(password) <= BcryptMaxBytes
  THEN password
  ELSE SubSeq(password, 1, BcryptMaxBytes)

\* bcrypt: the hash keeps the salt it was made with; compare re-hashes the
\* candidate with that salt.
BcryptDigest(password, salt) == <<"bcrypt", salt, BcryptKey(password)>>

BcryptHash(password, salt) ==
  [salt |-> salt, digest |-> BcryptDigest(password, salt)]

BcryptCompare(password, hash) ==
  BcryptDigest(password, hash.salt) = hash.digest

NoHash == [salt |-> "", digest |-> <<>>]

\* What the store answers for a key it does not hold.
NoUser ==
  [id |-> Undefined, email |-> Undefined, name |-> Undefined,
   hashedPassword |-> NoHash]

\* No createUser chain pending in a slot.
IdleCreate ==
  [pc |-> "idle", webId |-> Undefined, password |-> Undefined, user |-> NoUser]

NoCreating == [c \in {} |-> IdleCreate]

\* What a createUser promise settles to: status "resolved" with a value, or
\* "rejected" with the error's status code (0: the error carries none).
\* value is "undefined", "index" (the users-by-email entry) or "user".
Outcome(status, code, webId, password, value, user) ==
  [status |-> status, code |-> code, webId |-> webId, password |-> password,
   value |-> value, user |-> user]

NoOutcome == Outcome("none", 0, Undefined, Undefined, "undefined", NoUser)

-----------------------------------------------------------------------------
(* Promise chains *)

\* No token response yet.
NoTokens ==
  [access_token |-> Undefined, id_token |-> Undefined,
   refresh_token |-> Undefined, id_claims |-> FALSE, sub |-> Undefined]

IdleTask ==
  [kind |-> "idle", pc |-> "idle", sess |-> "none",
   issuer |-> Undefined, base |-> Undefined, trusted |-> FALSE,
   client |-> NoClient,
   username |-> Undefined, password |-> Undefined, user |-> NoUser,
   idToken |-> Undefined, issuerId |-> Undefined, result |-> NoTokens]

\* Slot t is the one a new chain takes: the lowest that is free.
\* One more request arrives.
Arrives ==
  /\ ncalls < MaxCalls
  /\ ncalls' = ncalls + 1

Free(t) ==
  /\ tasks[t].kind = "idle"
  /\ \A u \in TaskIds : u < t => tasks[u].kind # "idle"

\* Kinds of chain that run clientForIssuer.
CfiKinds == {"cfi", "callback", "callbackRp", "signout", "discover"}

\* clientForIssuer, synchronous part (lines 126-129): reads the trusted
\* client, then asks the store.
CfiBegin(kind, sess, issuer) ==
  [IdleTask EXCEPT !.kind = kind, !.pc = "get", !.sess = sess,
                   !.issuer = issuer,
                   !.base = trustedClient.redirect_uri,
                   !.trusted = (issuer = trustedClient.issuer)]

\* A response sent on a session.
Response(handler, status, body, location) ==
  [handler |-> handler, status |-> status, body |-> body, location |-> location]

NoResponse == Response("none", 0, "", <<>>)

LogEntry(t, ok, client) ==
  [issuer |-> tasks[t].issuer, ok |-> ok, client |-> client]

\* authParams with the response type of the code workflow for every workflow.
authParamsAlwaysCode(oidcClient, workflow) ==
  [endpoint |-> "signin", response_mode |-> "query",
   client_id |-> oidcClient.client_id,
   redirect_uri |-> oidcClient.redirect_uri,
   scope |-> "openid profile",
   response_type |-> "code",
   nonce |-> ""]

\* The authParams object authUrl builds (lines 42-56). workflow "undefined"
\* is a call without the argument, which takes the default 'code'; "" is a
\* field that is not set.
authParams(oidcClient, workflow) ==
  [endpoint |-> "signin", response_mode |-> "query",
   client_id |-> oidcClient.client_id,
   redirect_uri |-> oidcClient.redirect_uri,
   scope |-> "openid profile",
   response_type |-> CASE workflow \in {"code", "undefined"} -> "code"
                       [] workflow = "implicit" -> "id_token token"
                       [] OTHER -> "",
   nonce |-> IF workflow = "implicit" THEN "123" ELSE ""]

\* oidcClient.client.authorizationUri(authParams): the provider's
\* authorization URL; the query carries the redirect_uri.
authorizationUri(oidcClient, params) ==
  oidcClient.issuer \o <<"/", "a", "u", "t", "h", "?">>
    \o EncodeURIComponent(params.redirect_uri)

\* authUrl (lines 41-61).
authUrl(oidcClient, workflow) ==
  authorizationUri(oidcClient, authParams(oidcClient, workflow))

\* No authUrl call yet.
NoAuthUrl ==
  [client |-> NoClient, workflow |-> "undefined",
   params |-> authParams(NoClient, "undefined"), url |-> <<>>]

\* authRequest.subject = null
NullSubject == <<"null">>

\* No authRequest has passed the authenticate hook yet.
NoAuthRequest == [sess |-> "none", subject |-> NullSubject]

\* The chain of task t has its client: what the code that called
\* clientForIssuer (or, for the startup chain, initClient) does next.
\*   cfi        - a bare clientForIssuer call (authUrlForIssuer, loadAuthClient)
\*   ensure     - ensureTrustedClient: only a client it initialized itself is
\*                assigned to this.trustedClient (lines 167-178)
\*   callbackRp - handlers/oidc.js: oidcClient.client.token(tokenOptions)
\*   callback   - the later revision: oidcClient.validateResponse(url, session)
\*   signout    - userOidcClient.client.signout(idToken)
\*   discover   - discoverProvider: res.redirect(authUrl); authUrlForIssuer
\*                was given req.session where the workflow goes
HaveClient(t, c, initialized) ==
  LET k == tasks[t].kind IN
  /\ tasks' = [tasks EXCEPT ![t] =
                 CASE k = "callbackRp" -> [@ EXCEPT !.pc = "token", !.client = c]
                   [] k = "callback"   -> [@ EXCEPT !.pc = "validate", !.client = c]
                   [] k = "signout"    -> [@ EXCEPT !.pc = "upstream", !.client = c]
                   [] OTHER            -> IdleTask]
  /\ cfiLog' = IF k = "cfi" THEN cfiLog \cup {LogEntry(t, TRUE, c)} ELSE cfiLog
  /\ trustedClient' = IF k = "ensure" /\ initialized THEN c ELSE trustedClient
  /\ lastRes' = IF k = "discover"
                THEN [lastRes EXCEPT ![tasks[t].sess] =
                        Response("discover", 302, "", authUrl(c, "session"))]
                ELSE lastRes

\* The response of a callback whose chain rejects: handlers/oidc.js passes the
\* error on as it is (Express answers 500 for an error without a status), the
\* later revision wraps it in a 400.
CallbackError(k) ==
  IF k = "callback"
  THEN Response("callback", 400, "error", <<>>)
  ELSE Response("callback", 500, "error", <<>>)

\* The chain of task t rejects inside clientForIssuer / initClient.
Rejected(t) ==
  LET k == tasks[t].kind IN
  /\ tasks' = [tasks EXCEPT ![t] = IdleTask]
  /\ cfiLog' = IF k = "cfi" THEN cfiLog \cup {LogEntry(t, FALSE, NoClient)} ELSE cfiLog
  /\ lastRes' = IF k \in {"callback", "callbackRp"}
                THEN [lastRes EXCEPT ![tasks[t].sess] = CallbackError(k)]
                ELSE IF k = "discover"
                THEN [lastRes EXCEPT ![tasks[t].sess] =
                        Response("discover", 500, "error", <<>>)]
                ELSE lastRes
  /\ UNCHANGED trustedClient

\* initClient, synchronous part (lines 198-206): builds the client from the
\* configuration and starts provider discovery.
initClient(config) ==
  [issuer |-> config.issuer, client_id |-> config.client_id,
   redirect_uri |-> config.redirect_uri]

\* this.clients.get(issuer) resolves (clientForIssuer lines 130-144,
\* ensureTrustedClient lines 165-173).
GetResolve(t) ==
  /\ tasks[t].pc = "get"
  /\ LET c == ClientsGet(tasks[t].issuer) IN
     IF c # NoClient
     THEN HaveClient(t, c, FALSE)
     ELSE /\ tasks' = [tasks EXCEPT ![t] =
                [@ EXCEPT !.pc = "initProvider",
                          !.client =
                            IF tasks[t].kind = "ensure"
                            THEN initClient(tasks[t].client)
                            ELSE initClient(
                                   [issuer |-> tasks[t].issuer,
                                    client_id |-> 0,
                                    redirect_uri |->
                                      redirectUriForIssuer(tasks[t].issuer,
                                        tasks[t].base, tasks[t].trusted)])]]
          /\ UNCHANGED <<cfiLog, trustedClient, lastRes>>
  /\ UNCHANGED <<store, regSeq, session, users, acctVars, ldpAuth, authFailures, ncalls>>

\* this.clients.get(issuer) rejects (a storage error).
GetReject(t) ==
  /\ tasks[t].pc = "get"
  /\ Rejected(t)
  /\ UNCHANGED <<store, regSeq, session, users, acctVars, ldpAuth, authFailures, ncalls>>

\* oidcExpress.client.initProvider() resolves (lines 207-218).
InitProviderOk(t) ==
  /\ tasks[t].pc = "initProvider"
  /\ tasks' = [tasks EXCEPT ![t].pc =
                 IF tasks[t].client.client_id = 0 THEN "register" ELSE "put"]
  /\ UNCHANGED <<store, regSeq, cfiLog, trustedClient, lastRes,
                 session, users, acctVars, ldpAuth, authFailures, ncalls>>

\* InitProviderFail with the half-built client written to the store.
InitProviderFailStoresPartial(t) ==
  /\ tasks[t].pc = "initProvider"
  /\ Rejected(t)
  /\ store' = ClientsPut(tasks[t].client)
  /\ UNCHANGED <<regSeq, session, users, acctVars, ldpAuth, authFailures, ncalls>>

InitProviderFail(t) ==
  /\ tasks[t].pc = "initProvider"
  /\ Rejected(t)
  /\ UNCHANGED <<store, regSeq, session, users, acctVars, ldpAuth, authFailures, ncalls>>

\* oidcExpress.client.register(registration) resolves: the provider grants a
\* fresh client id (lines 212, 219-222).
RegisterOk(t) ==
  /\ tasks[t].pc = "register"
  /\ regSeq' = regSeq + 1
  /\ tasks' = [tasks EXCEPT ![t].pc = "put", ![t].client.client_id = regSeq + 1]
  /\ UNCHANGED <<store, cfiLog, trustedClient, lastRes,
                 session, users, acctVars, ldpAuth, authFailures, ncalls>>

RegisterFail(t) ==
  /\ tasks[t].pc = "register"
  /\ Rejected(t)
  /\ UNCHANGED <<store, regSeq, session, users, acctVars, ldpAuth, authFailures, ncalls>>

\* this.clients.put(oidcExpress) resolves (lines 222-224).
PutOk(t) ==
  /\ tasks[t].pc = "put"
  /\ store' = ClientsPut(tasks[t].client)
  /\ HaveClient(t, tasks[t].client, TRUE)
  /\ UNCHANGED <<regSeq, session, users, acctVars, ldpAuth, authFailures, ncalls>>

PutFail(t) ==
  /\ tasks[t].pc = "put"
  /\ Rejected(t)
  /\ UNCHANGED <<store, regSeq, session, users, acctVars, ldpAuth, authFailures, ncalls>>

\* Some request handler calls clientForIssuer(issuer) (authUrlForIssuer,
\* loadAuthClient).
clientForIssuer(t, issuer) ==
  /\ Arrives
  /\ Free(t)
  /\ tasks' = [tasks EXCEPT ![t] = CfiBegin("cfi", "none", issuer)]
  /\ UNCHANGED <<store, regSeq, cfiLog, trustedClient, lastRes,
                 session, users, acctVars, ldpAuth, authFailures>>

-----------------------------------------------------------------------------
(* The client manager on its own: the server has just been created,       *)
(* ensureTrustedClient(localConfig) is in flight, requests come in.        *)

PersistedTrusted ==
  [issuer |-> TrustedIssuer, client_id |-> PresetClientId,
   redirect_uri |-> BaseRedirectUri]

\* ensureTrustedClient, synchronous part (lines 160-164).
ensureTrustedClient(config) ==
  [IdleTask EXCEPT !.kind = "ensure", !.pc = "get", !.issuer = config.issuer,
                   !.client = config, !.trusted = TRUE]

NoSessions == [s \in {} |-> NoResponse]

InitRegistry ==
  /\ \E config \in LocalConfigs :
       tasks = [t \in 1..(MaxCalls + 1) |->
                  IF t = 1 THEN ensureTrustedClient(config) ELSE IdleTask]
  /\ store \in {{}, {PersistedTrusted}}
  /\ trustedClient = NoClient
  /\ regSeq = 0
  /\ cfiLog = {}
  /\ ncalls = 0
  /\ session = NoSessions
  /\ users = {}
  /\ ldpAuth = "oidc"
  /\ lastRes = NoSessions
  /\ authFailures = {}
  /\ usersByEmail = {}
  /\ creating = NoCreating
  /\ lastCreate = NoOutcome
  /\ lastAuthUrl = NoAuthUrl
  /\ authRequest = NoAuthRequest

NextRegistry ==
  \/ \E t \in TaskIds, i \in Issuers : clientForIssuer(t, i)
  \/ \E t \in TaskIds : GetResolve(t)
  \/ \E t \in TaskIds : GetReject(t)
  \/ \E t \in TaskIds : InitProviderOk(t)
  \/ \E t \in TaskIds : InitProviderFail(t)
  \/ \E t \in TaskIds : RegisterOk(t)
  \/ \E t \in TaskIds : RegisterFail(t)
  \/ \E t \in TaskIds : PutOk(t)
  \/ \E t \in TaskIds : PutFail(t)

SpecRegistry == InitRegistry /\ [][NextRegistry]_vars

-----------------------------------------------------------------------------
(* Sessions, the account store as the handlers use it *)

Alice == <<"h", ":", "/", "a">>
Bob   == <<"h", ":", "/", "b">>

PwGood == <<"p", "w">>
PwBad  == <<"p", "x">>

AccessTok  == <<"A", "T">>
IdTok      == <<"I", "T">>
RefreshTok == <<"R", "T">>

ReturnUrl    == <<"/", "d", "o", "c">>
AuthorizeUrl == <<"/", "a", "u", "t", "h", "o", "r", "i", "z", "e">>
SignedOutUrl == <<"/", "s", "i", "g", "n", "e", "d", "_", "o", "u", "t",
                  ".", "h", "t", "m", "l">>
AccessTokenParam == <<"?", "a", "c", "c", "e", "s", "s", "_",
                      "t", "o", "k", "e", "n", "=">>

\* A session nothing has been written to yet.
FreshSession ==
  [userId |-> Undefined, identified |-> FALSE, accessToken |-> Undefined,
   idToken |-> Undefined, refreshToken |-> Undefined, issuer |-> Undefined,
   subject |-> Undefined, returnToUrl |-> Undefined,
   oidcClient |-> NoClient]

normalizeWebIdKey(webId) == EncodeURIComponent(webId)

\* this.store.get('users', key)
UsersGet(key) ==
  IF \E e \in users : e.key = key
  THEN (CHOOSE e \in users : e.key = key).value
  ELSE NoUser

\* UsersPut that keeps what the key held before.
UsersAdd(collection, key, value) ==
  collection \cup {[key |-> key, value |-> value]}

\* this.store.put('users', key, value) on a collection
UsersPut(collection, key, value) ==
  {e \in collection : e.key # key} \cup {[key |-> key, value |-> value]}

\* The user object createUser builds and stores (lines 110-119).
UserRecord(webId, email, name, hashedPassword) ==
  [id |-> webId, email |-> email, name |-> name,
   hashedPassword |-> hashedPassword]

findUser(webId) == UsersGet(normalizeWebIdKey(webId))

\* matchPassword resolves to the user when bcrypt.compare succeeds, else null.
matchPassword(user, password) ==
  IF BcryptCompare(password, user.hashedPassword) THEN user ELSE NoUser

Reply(s, response) == lastRes' = [lastRes EXCEPT ![s] = response]

Sessions == DOMAIN session

\* The signin chain of task t answers that the credentials are invalid.
Refuse(t, response) ==
  /\ Reply(tasks[t].sess, response)
  /\ authFailures' = authFailures \cup
       {[username |-> tasks[t].username, password |-> tasks[t].password,
         response |-> response]}

-----------------------------------------------------------------------------
(* POST /signin, /api/accounts/signin *)

\* The handler up to userStore.findUser(username) (lines 25-52).
signin(t, s, username, password) ==
  /\ Arrives
  /\ IF ~Truthy(username)
     THEN Reply(s, Response("signin", 400, "Username is required", <<>>))
          /\ UNCHANGED tasks
     ELSE IF ~Truthy(password)
     THEN Reply(s, Response("signin", 400, "Password is required", <<>>))
          /\ UNCHANGED tasks
     ELSE IF ldpAuth # "oidc"
     THEN Reply(s, Response("signin", 500,
                   "Invalid signin method - oidc not enabled", <<>>))
          /\ UNCHANGED tasks
     ELSE /\ Free(t)
          /\ tasks' = [tasks EXCEPT ![t] =
                [IdleTask EXCEPT !.kind = "signin", !.pc = "findUser",
                                 !.sess = s, !.username = username,
                                 !.password = password]]
          /\ UNCHANGED lastRes
  /\ UNCHANGED <<store, trustedClient, regSeq, cfiLog, session, users, acctVars, ldpAuth, authFailures>>

\* findUser resolves; the first .then (lines 53-59).
SigninFindUser(t) ==
  /\ tasks[t].kind = "signin" /\ tasks[t].pc = "findUser"
  /\ LET foundUser == findUser(tasks[t].username) IN
     IF foundUser = NoUser
     THEN /\ tasks' = [tasks EXCEPT ![t] = IdleTask]
          /\ Refuse(t, Response("signin", 400,
                                "No user found for that username", <<>>))
     ELSE /\ tasks' = [tasks EXCEPT ![t].pc = "matchPassword",
                                    ![t].user = foundUser]
          /\ UNCHANGED <<lastRes, authFailures>>
  /\ UNCHANGED <<store, trustedClient, regSeq, cfiLog, session,
                 users, acctVars, ldpAuth, ncalls>>

\* signinSession without the identified flag.
signinSessionNoFlag(sess, validUser) ==
  [sess EXCEPT !.userId = validUser.id,
               !.subject = validUser.id]

\* What signin writes to the session once the password matches (lines 66-71).
signinSession(sess, validUser) ==
  [sess EXCEPT !.userId = validUser.id,
               !.identified = TRUE,
               !.subject = validUser.id]

\* SigninMatchPassword with the session reset when the password is wrong.
SigninMatchPasswordResets(t) ==
  /\ tasks[t].kind = "signin" /\ tasks[t].pc = "matchPassword"
  /\ LET validUser == matchPassword(tasks[t].user, tasks[t].password)
         s == tasks[t].sess
     IN
     IF validUser = NoUser
     THEN /\ Refuse(t, Response("signin", 400, "Invalid password for user", <<>>))
          /\ session' = [session EXCEPT ![s].userId = <<>>,
                                        ![s].identified = FALSE]
     ELSE /\ session' = [session EXCEPT ![s] = signinSession(@, validUser)]
          /\ Reply(s, Response("signin", 302, "", AuthorizeUrl))
          /\ UNCHANGED authFailures
  /\ tasks' = [tasks EXCEPT ![t] = IdleTask]
  /\ UNCHANGED <<store, trustedClient, regSeq, cfiLog, users, acctVars, ldpAuth, ncalls>>

\* matchPassword resolves; the second .then (lines 60-83).
SigninMatchPassword(t) ==
  /\ tasks[t].kind = "signin" /\ tasks[t].pc = "matchPassword"
  /\ LET validUser == matchPassword(tasks[t].user, tasks[t].password)
         s == tasks[t].sess
     IN
     IF validUser = NoUser
     THEN /\ Refuse(t, Response("signin", 400, "Invalid password for user", <<>>))
          /\ UNCHANGED session
     ELSE /\ session' = [session EXCEPT ![s] = signinSession(@, validUser)]
          /\ Reply(s, Response("signin", 302, "", AuthorizeUrl))
          /\ UNCHANGED authFailures
  /\ tasks' = [tasks EXCEPT ![t] = IdleTask]
  /\ UNCHANGED <<store, trustedClient, regSeq, cfiLog, users, acctVars, ldpAuth, ncalls>>

\* findUser or matchPassword rejects with an error that has no status: the
\* .catch answers 500 (lines 95-101).
SigninError(t) ==
  /\ tasks[t].kind = "signin"
  /\ tasks' = [tasks EXCEPT ![t] = IdleTask]
  /\ Reply(tasks[t].sess,
           Response("signin", 500, "Unhandled error in signin api handler", <<>>))
  /\ UNCHANGED <<store, trustedClient, regSeq, cfiLog, session,
                 users, acctVars, ldpAuth, authFailures, ncalls>>

-----------------------------------------------------------------------------
(* GET /rp/:issuer_id, the authorization-code callback *)

\* req.params.issuer_id: the router decodes the path segment once.
CallbackSegments == {Undefined} \cup {EncodeURIComponent(i) : i \in Issuers}

ExpressParam(segment) ==
  IF segment = Undefined THEN Undefined ELSE DecodeURIComponent(segment)

\* What the token endpoint / response validation hands back.
TokenResults ==
  { [access_token |-> AccessTok, id_token |-> IdTok, refresh_token |-> RefreshTok,
     id_claims |-> c[1], sub |-> c[2]]
      : c \in {<<FALSE, Undefined>>, <<TRUE, Undefined>>, <<TRUE, Alice>>} }

\* resumeSession that leaves the saved return URL in the session.
resumeSessionKeepsUrl(sess) == sess

\* resumeUserFlow: what it does to the session (delete req.session.returnToUrl).
resumeSession(sess) == [sess EXCEPT !.returnToUrl = Undefined]

\* resumeUserFlow: the response it sends for a session.
resumeResponse(sess) ==
  IF Truthy(sess.returnToUrl)
  THEN Response("resumeUserFlow", 302, "",
         IF Truthy(sess.accessToken)
         THEN sess.returnToUrl \o AccessTokenParam \o sess.accessToken
         ELSE sess.returnToUrl)
  ELSE Response("resumeUserFlow", 200, "Resume User Flow (failed)", <<>>)

\* The later revision of the handler, up to clientForIssuer (lines 59-66).
authCodeFlowCallback(t, s, segment) ==
  /\ Arrives
  /\ ldpAuth = "oidc"
  /\ LET issuer_id == ExpressParam(segment) IN
     IF ~Truthy(issuer_id)
     THEN /\ Reply(s, Response("callback", 400,
                     "Invalid auth response uri - missing issuer id", <<>>))
          /\ UNCHANGED tasks
     ELSE /\ Free(t)
          /\ tasks' = [tasks EXCEPT ![t] =
                [CfiBegin("callback", s, DecodeURIComponent(issuer_id))
                   EXCEPT !.issuerId = issuer_id]]
          /\ UNCHANGED lastRes
  /\ UNCHANGED <<store, trustedClient, regSeq, cfiLog, session, users, acctVars, ldpAuth,
                 authFailures>>

\* handlers/oidc.js, up to clientForIssuer (lines 175-191): without an issuer
\* id the issuer is the trusted client's.
authCodeFlowCallbackRp(t, s, segment) ==
  /\ Arrives
  /\ ldpAuth = "oidc"
  /\ LET issuer_id == ExpressParam(segment)
         issuer == IF Truthy(issuer_id)
                   THEN DecodeURIComponent(issuer_id)
                   ELSE trustedClient.issuer
     IN
     /\ Free(t)
     /\ tasks' = [tasks EXCEPT ![t] =
           [CfiBegin("callbackRp", s, issuer) EXCEPT !.issuerId = issuer_id]]
  /\ UNCHANGED <<store, trustedClient, regSeq, cfiLog, session, users, acctVars,
                 ldpAuth, authFailures, lastRes>>

\* The provider answers the code exchange (oidcClient.client.token, or the
\* exchange inside oidcClient.validateResponse) with r.
CodeExchanged(t, r) ==
  /\ tasks[t].kind \in {"callback", "callbackRp"}
  /\ tasks[t].pc \in {"validate", "token"}
  /\ tasks' = [tasks EXCEPT ![t].pc = "exchanged", ![t].result = r]
  /\ UNCHANGED <<store, trustedClient, regSeq, cfiLog, ncalls, session,
                 users, acctVars, ldpAuth, authFailures, lastRes>>

\* bindSession without the refresh token.
bindSessionNoRefresh(sess, r) ==
  [sess EXCEPT !.accessToken = r.access_token,
               !.userId = r.sub,
               !.identified = TRUE]

\* What the later revision writes to the session (part_001 lines 73-80).
bindSession(sess, r) ==
  [sess EXCEPT !.accessToken = r.access_token,
               !.refreshToken = r.refresh_token,
               !.userId = r.sub,
               !.identified = TRUE]

\* What handlers/oidc.js writes to the session (lines 200-215): the tokens,
\* the issuer, the user, and the client the chain was given.
bindSessionRp(sess, r, issuer, oidcClient) ==
  [sess EXCEPT !.accessToken = r.access_token,
               !.idToken = r.id_token,
               !.refreshToken = r.refresh_token,
               !.issuer = issuer,
               !.userId = r.sub,
               !.identified = TRUE,
               !.oidcClient = oidcClient]

\* The second .then of the later revision, then resumeUserFlow (part_001
\* lines 72-82, 95-108). A response without a decoded payload makes its first
\* line throw, which the .catch turns into a 400.
CallbackValidated(t) ==
  /\ tasks[t].kind = "callback" /\ tasks[t].pc = "exchanged"
  /\ LET s == tasks[t].sess
         r == tasks[t].result
     IN
     IF ~r.id_claims
     THEN /\ Reply(s, CallbackError("callback"))
          /\ UNCHANGED session
     ELSE /\ session' = [session EXCEPT ![s] = resumeSession(bindSession(@, r))]
          /\ Reply(s, resumeResponse(bindSession(session[s], r)))
  /\ tasks' = [tasks EXCEPT ![t] = IdleTask]
  /\ UNCHANGED <<store, trustedClient, regSeq, cfiLog, ncalls, users, acctVars, ldpAuth,
                 authFailures>>

\* CallbackTokens with the access token written to the session before the
\* ID token's claims are read.
CallbackTokensEarlyWrite(t) ==
  /\ tasks[t].kind = "callbackRp" /\ tasks[t].pc = "exchanged"
  /\ LET s == tasks[t].sess
         r == tasks[t].result
     IN
     IF ~r.id_claims
     THEN /\ Reply(s, CallbackError("callbackRp"))
          /\ session' = [session EXCEPT ![s].accessToken = r.access_token]
     ELSE /\ session' = [session EXCEPT ![s] =
                resumeSession(bindSessionRp(@, r, tasks[t].issuer, tasks[t].client))]
          /\ Reply(s, resumeResponse(
                 bindSessionRp(session[s], r, tasks[t].issuer, tasks[t].client)))
  /\ tasks' = [tasks EXCEPT ![t] = IdleTask]
  /\ UNCHANGED <<store, trustedClient, regSeq, cfiLog, ncalls, users, acctVars, ldpAuth,
                 authFailures>>

\* The second .then of handlers/oidc.js, then resumeUserFlow (lines 199-216,
\* 235-248). A token result without id_claims makes line 204 throw.
CallbackTokens(t) ==
  /\ tasks[t].kind = "callbackRp" /\ tasks[t].pc = "exchanged"
  /\ LET s == tasks[t].sess
         r == tasks[t].result
     IN
     IF ~r.id_claims
     THEN /\ Reply(s, CallbackError("callbackRp"))
          /\ UNCHANGED session
     ELSE /\ session' = [session EXCEPT ![s] =
                resumeSession(bindSessionRp(@, r, tasks[t].issuer, tasks[t].client))]
          /\ Reply(s, resumeResponse(
                 bindSessionRp(session[s], r, tasks[t].issuer, tasks[t].client)))
  /\ tasks' = [tasks EXCEPT ![t] = IdleTask]
  /\ UNCHANGED <<store, trustedClient, regSeq, cfiLog, ncalls, users, acctVars, ldpAuth,
                 authFailures>>

\* CallbackExchangeFail that starts the chain of the request over.
CallbackExchangeFailRetries(t) ==
  /\ tasks[t].kind \in {"callback", "callbackRp"}
  /\ tasks[t].pc \in {"validate", "token"}
  /\ tasks' = [tasks EXCEPT ![t].pc = "get"]
  /\ UNCHANGED <<store, trustedClient, regSeq, cfiLog, ncalls, session,
                 users, acctVars, ldpAuth, authFailures, lastRes>>

\* The code exchange / response validation rejects: the .catch
\* (handlers/oidc.js lines 223-226, part_001 lines 83-86).
CallbackExchangeFail(t) ==
  /\ tasks[t].kind \in {"callback", "callbackRp"}
  /\ tasks[t].pc \in {"validate", "token"}
  /\ tasks' = [tasks EXCEPT ![t] = IdleTask]
  /\ Reply(tasks[t].sess, CallbackError(tasks[t].kind))
  /\ UNCHANGED <<store, trustedClient, regSeq, cfiLog, ncalls, session,
                 users, acctVars, ldpAuth, authFailures>>

-----------------------------------------------------------------------------
(* Token-based session init (handlers/oidc.js authenticate router) *)

\* detectUser + authSessionInit (lines 86-113); webId is what detectUser finds.
authSessionInit(s, webId) ==
  /\ Arrives
  /\ ldpAuth = "oidc"
  /\ IF ~Truthy(webId)
     THEN UNCHANGED session
     ELSE session' = [session EXCEPT ![s].userId = webId, ![s].identified = TRUE]
  /\ Reply(s, Response("authSessionInit", 0, "next", <<>>))
  /\ UNCHANGED <<tasks, store, trustedClient, regSeq, cfiLog, users, acctVars, ldpAuth, authFailures>>

-----------------------------------------------------------------------------
(* GET /signout, POST /api/accounts/signout *)

\* signout with the session cleared only once the upstream sign-out settled.
signoutDeferred(t, s) ==
  /\ Arrives
  /\ LET idToken == session[s].idToken IN
     IF Truthy(idToken) /\ ldpAuth = "oidc"
     THEN /\ Free(t)
          /\ tasks' = [tasks EXCEPT ![t] =
                [CfiBegin("signout", s, session[s].issuer)
                   EXCEPT !.idToken = idToken]]
          /\ UNCHANGED session
     ELSE /\ UNCHANGED tasks
          /\ session' = [session EXCEPT ![s].userId = <<>>,
                                        ![s].identified = FALSE]
  /\ Reply(s, Response("signout", 302, "", SignedOutUrl))
  /\ UNCHANGED <<store, trustedClient, regSeq, cfiLog, users, acctVars, ldpAuth,
                 authFailures>>

\* signout that signs every session out.
signoutEverySession(t, s) ==
  /\ Arrives
  /\ LET idToken == session[s].idToken IN
     IF Truthy(idToken) /\ ldpAuth = "oidc"
     THEN /\ Free(t)
          /\ tasks' = [tasks EXCEPT ![t] =
                [CfiBegin("signout", s, session[s].issuer)
                   EXCEPT !.idToken = idToken]]
     ELSE UNCHANGED tasks
  /\ session' = [o \in Sessions |->
                   [session[o] EXCEPT !.userId = <<>>, !.identified = FALSE]]
  /\ Reply(s, Response("signout", 302, "", SignedOutUrl))
  /\ UNCHANGED <<store, trustedClient, regSeq, cfiLog, users, acctVars, ldpAuth, authFailures>>

\* The whole handler (lines 10-37). With an id token in the session and oidc
\* enabled it starts the upstream sign-out chain, which it does not wait for.
signout(t, s) ==
  /\ Arrives
  /\ LET idToken == session[s].idToken IN
     IF Truthy(idToken) /\ ldpAuth = "oidc"
     THEN /\ Free(t)
          /\ tasks' = [tasks EXCEPT ![t] =
                [CfiBegin("signout", s, session[s].issuer)
                   EXCEPT !.idToken = idToken]]
     ELSE UNCHANGED tasks
  /\ session' = [session EXCEPT ![s].userId = <<>>, ![s].identified = FALSE]
  /\ Reply(s, Response("signout", 302, "", SignedOutUrl))
  /\ UNCHANGED <<store, trustedClient, regSeq, cfiLog, users, acctVars, ldpAuth, authFailures>>

\* userOidcClient.client.signout(idToken) settles, either way: a rejection is
\* logged by the .catch and nothing else happens (lines 22-28).
SignoutUpstreamSettled(t) ==
  /\ tasks[t].kind = "signout" /\ tasks[t].pc = "upstream"
  /\ tasks' = [tasks EXCEPT ![t] = IdleTask]
  /\ UNCHANGED <<store, trustedClient, regSeq, cfiLog, session,
                 users, acctVars, ldpAuth, authFailures, lastRes, ncalls>>

-----------------------------------------------------------------------------
(* The request handlers on a running server *)

SessionIds == {"s1"}

InitSession ==
  /\ tasks = [t \in 1..MaxInFlight |-> IdleTask]
  /\ \/ store = {} /\ trustedClient = NoClient
     \/ store = {PersistedTrusted} /\ trustedClient = NoClient
     \/ store = {PersistedTrusted} /\ trustedClient = PersistedTrusted
  /\ regSeq = 0
  /\ cfiLog = {}
  /\ ncalls = 0
  /\ session \in [SessionIds ->
                    {[FreshSession EXCEPT !.returnToUrl = u]
                       : u \in {Undefined, ReturnUrl}}]
  /\ users = UsersPut({}, normalizeWebIdKey(Alice),
               UserRecord(Alice, Undefined, Undefined,
                          BcryptHash(PwGood, "salt")))
  /\ ldpAuth \in {"oidc", "tls"}
  /\ lastRes = [s \in SessionIds |-> NoResponse]
  /\ authFailures = {}
  /\ usersByEmail = {}
  /\ creating = NoCreating
  /\ lastCreate = NoOutcome
  /\ lastAuthUrl = NoAuthUrl
  /\ authRequest = NoAuthRequest

NextSession ==
  \/ \E t \in TaskIds, s \in Sessions, u \in {<<>>, Alice, Bob},
        p \in {<<>>, PwGood, PwBad} : signin(t, s, u, p)
  \/ \E t \in TaskIds : SigninFindUser(t)
  \/ \E t \in TaskIds : SigninMatchPassword(t)
  \/ \E t \in TaskIds : SigninError(t)
  \/ \E t \in TaskIds, s \in Sessions, g \in CallbackSegments :
        authCodeFlowCallback(t, s, g)
  \/ \E t \in TaskIds, s \in Sessions, g \in CallbackSegments :
        authCodeFlowCallbackRp(t, s, g)
  \/ \E t \in TaskIds, r \in TokenResults : CodeExchanged(t, r)
  \/ \E t \in TaskIds : CallbackValidated(t)
  \/ \E t \in TaskIds : CallbackTokens(t)
  \/ \E t \in TaskIds : CallbackExchangeFail(t)
  \/ \E s \in Sessions, w \in {Undefined, Alice} : authSessionInit(s, w)
  \/ \E t \in TaskIds, s \in Sessions : signout(t, s)
  \/ \E t \in TaskIds : SignoutUpstreamSettled(t)
  \/ \E t \in TaskIds : GetResolve(t)
  \/ \E t \in TaskIds : GetReject(t)
  \/ \E t \in TaskIds : InitProviderOk(t)
  \/ \E t \in TaskIds : InitProviderFail(t)
  \/ \E t \in TaskIds : RegisterOk(t)
  \/ \E t \in TaskIds : RegisterFail(t)
  \/ \E t \in TaskIds : PutOk(t)
  \/ \E t \in TaskIds : PutFail(t)

SpecSession == InitSession /\ [][NextSession]_vars

-----------------------------------------------------------------------------
(* POST /api/accounts/discover: issuer discovery *)

NotAUri == <<"a", "l", "i", "c", "e">>

\* req.body.webid
WebIdInputs == {Undefined, NotAUri, Alice}

\* validUrl.isUri: an absolute URI has a scheme in front of a colon.
IsUri(s) ==
  /\ s # Undefined
  /\ \E i \in 2..Len(s) : s[i] = ":"

\* How the OPTIONS probe can fail: the request errors, the response has no
\* Link header, the Link header has no oidc.issuer relation.
ProbeFailures == {"probeErr", "probeNoLink", "probeNoIssuer"}

\* The handler up to the OPTIONS request (lines 14-40).
discoverProvider(t, s, webid) ==
  /\ Arrives
  /\ IF ~IsUri(webid)
     THEN /\ Reply(s, Response("discover", 400, "This is not a valid URI", <<>>))
          /\ UNCHANGED tasks
     ELSE IF ldpAuth # "oidc"
     THEN /\ Reply(s, Response("discover", 500,
                     "Invalid signin method - oidc not enabled", <<>>))
          /\ UNCHANGED tasks
     ELSE /\ Free(t)
          /\ tasks' = [tasks EXCEPT ![t] =
                [IdleTask EXCEPT !.kind = "discover", !.pc = "probe", !.sess = s]]
          /\ UNCHANGED lastRes
  /\ UNCHANGED <<store, trustedClient, regSeq, cfiLog, session, users, acctVars,
                 ldpAuth, authFailures>>

\* The OPTIONS request settles: with one of the failures, or with a Link
\* header that names an issuer.
ProbeSettled(t, outcome, issuer) ==
  /\ tasks[t].kind = "discover" /\ tasks[t].pc = "probe"
  /\ tasks' = [tasks EXCEPT ![t].pc = outcome,
                            ![t].issuer = IF outcome = "probeIssuer"
                                          THEN issuer ELSE Undefined]
  /\ UNCHANGED <<store, trustedClient, regSeq, cfiLog, ncalls, session, users,
                 acctVars, ldpAuth, authFailures, lastRes>>

\* DiscoverCallback with the return after the last 400 left out.
DiscoverCallbackFallsThrough(t) ==
  /\ tasks[t].kind = "discover"
  /\ tasks[t].pc \in ProbeFailures \cup {"probeIssuer"}
  /\ LET s == tasks[t].sess IN
     CASE tasks[t].pc = "probeErr" ->
            /\ Reply(s, Response("discover", 400,
                                 "Did not find a valid endpoint", <<>>))
            /\ tasks' = [tasks EXCEPT ![t] = IdleTask]
       [] tasks[t].pc = "probeNoLink" ->
            /\ Reply(s, Response("discover", 400,
                                 "The URI requested is not a valid endpoint", <<>>))
            /\ tasks' = [tasks EXCEPT ![t] = IdleTask]
       [] tasks[t].pc = "probeNoIssuer" ->
            /\ Reply(s, Response("discover", 400,
                                 "The URI requested is not a valid endpoint", <<>>))
            /\ tasks' = [tasks EXCEPT ![t] = CfiBegin("discover", s, tasks[t].issuer)]
       [] OTHER ->
            /\ tasks' = [tasks EXCEPT ![t] = CfiBegin("discover", s, tasks[t].issuer)]
            /\ UNCHANGED lastRes
  /\ UNCHANGED <<store, trustedClient, regSeq, cfiLog, ncalls, session, users,
                 acctVars, ldpAuth, authFailures>>

\* The callback of the OPTIONS request (lines 40-63): each failure answers
\* 400 and returns; with an issuer it calls authUrlForIssuer, which starts
\* with clientForIssuer.
DiscoverCallback(t) ==
  /\ tasks[t].kind = "discover"
  /\ tasks[t].pc \in ProbeFailures \cup {"probeIssuer"}
  /\ LET s == tasks[t].sess IN
     CASE tasks[t].pc = "probeErr" ->
            /\ Reply(s, Response("discover", 400,
                                 "Did not find a valid endpoint", <<>>))
            /\ tasks' = [tasks EXCEPT ![t] = IdleTask]
       [] tasks[t].pc \in {"probeNoLink", "probeNoIssuer"} ->
            /\ Reply(s, Response("discover", 400,
                                 "The URI requested is not a valid endpoint", <<>>))
            /\ tasks' = [tasks EXCEPT ![t] = IdleTask]
       [] OTHER ->
            /\ tasks' = [tasks EXCEPT ![t] = CfiBegin("discover", s, tasks[t].issuer)]
            /\ UNCHANGED lastRes
  /\ UNCHANGED <<store, trustedClient, regSeq, cfiLog, ncalls, session, users,
                 acctVars, ldpAuth, authFailures>>

InitDiscover ==
  /\ tasks = [t \in 1..MaxInFlight |-> IdleTask]
  /\ \/ store = {} /\ trustedClient = NoClient
     \/ store = {PersistedTrusted} /\ trustedClient = PersistedTrusted
  /\ regSeq = 0
  /\ cfiLog = {}
  /\ ncalls = 0
  /\ session = [s \in SessionIds |-> FreshSession]
  /\ users = {}
  /\ ldpAuth \in {"oidc", "tls"}
  /\ lastRes = [s \in SessionIds |-> NoResponse]
  /\ authFailures = {}
  /\ usersByEmail = {}
  /\ creating = NoCreating
  /\ lastCreate = NoOutcome
  /\ lastAuthUrl = NoAuthUrl
  /\ authRequest = NoAuthRequest

NextDiscover ==
  \/ \E t \in TaskIds, s \in Sessions, w \in WebIdInputs : discoverProvider(t, s, w)
  \/ \E t \in TaskIds, o \in ProbeFailures \cup {"probeIssuer"}, i \in Issuers :
        ProbeSettled(t, o, i)
  \/ \E t \in TaskIds : DiscoverCallback(t)
  \/ \E t \in TaskIds : GetResolve(t)
  \/ \E t \in TaskIds : GetReject(t)
  \/ \E t \in TaskIds : InitProviderOk(t)
  \/ \E t \in TaskIds : InitProviderFail(t)
  \/ \E t \in TaskIds : RegisterOk(t)
  \/ \E t \in TaskIds : RegisterFail(t)
  \/ \E t \in TaskIds : PutOk(t)
  \/ \E t \in TaskIds : PutFail(t)

SpecDiscover == InitDiscover /\ [][NextDiscover]_vars

-----------------------------------------------------------------------------
(* Callback routing: requests that arrive at the registered redirect URIs *)

\* An issuer URL that itself contains a percent escape: h:/%25
EscapedIssuer == <<"h", ":", "/", "%", "2", "5">>

RoutedIssuers == Issuers \cup {EscapedIssuer}

\* The redirect URI clientForIssuer registers for an issuer on a server whose
\* trusted client is set up (lines 126-138).
RegisteredRedirectUri(issuer) ==
  redirectUriForIssuer(issuer, BaseRedirectUri, issuer = TrustedIssuer)

\* The router's match of a request path against '/rp' and '/rp/:issuer_id':
\* the raw path segment behind the base redirect URI, none for the base itself.
RouteSegment(uri) ==
  IF uri = BaseRedirectUri
  THEN Undefined
  ELSE SubSeq(uri, Len(BaseRedirectUri) + 2, Len(uri))

InitRouting ==
  /\ tasks = [t \in 1..MaxInFlight |-> IdleTask]
  /\ store \in {{}, {PersistedTrusted}}
  /\ trustedClient = PersistedTrusted
  /\ regSeq = 0
  /\ cfiLog = {}
  /\ ncalls = 0
  /\ session = [s \in SessionIds |-> FreshSession]
  /\ users = {}
  /\ ldpAuth = "oidc"
  /\ lastRes = [s \in SessionIds |-> NoResponse]
  /\ authFailures = {}
  /\ usersByEmail = {}
  /\ creating = NoCreating
  /\ lastCreate = NoOutcome
  /\ lastAuthUrl = NoAuthUrl
  /\ authRequest = NoAuthRequest

NextRouting ==
  \/ \E t \in TaskIds, s \in Sessions, i \in RoutedIssuers :
        authCodeFlowCallback(t, s, RouteSegment(RegisteredRedirectUri(i)))
  \/ \E t \in TaskIds, s \in Sessions, i \in RoutedIssuers :
        authCodeFlowCallbackRp(t, s, RouteSegment(RegisteredRedirectUri(i)))
  \/ \E t \in TaskIds, r \in TokenResults : CodeExchanged(t, r)
  \/ \E t \in TaskIds : CallbackValidated(t)
  \/ \E t \in TaskIds : CallbackTokens(t)
  \/ \E t \in TaskIds : CallbackExchangeFail(t)
  \/ \E t \in TaskIds : GetResolve(t)
  \/ \E t \in TaskIds : GetReject(t)
  \/ \E t \in TaskIds : InitProviderOk(t)
  \/ \E t \in TaskIds : InitProviderFail(t)
  \/ \E t \in TaskIds : RegisterOk(t)
  \/ \E t \in TaskIds : RegisterFail(t)
  \/ \E t \in TaskIds : PutOk(t)
  \/ \E t \in TaskIds : PutFail(t)

SpecRouting == InitRouting /\ [][NextRouting]_vars

-----------------------------------------------------------------------------
(* authUrl on its own: the authorization URL of a client and a workflow *)

\* The values callers pass where the workflow goes: the two workflows, nothing
\* (the default applies), and the session object discoverProvider passes.
Workflows == {"code", "implicit", "undefined", "session"}

\* Initialized clients: registered with the provider or pre-registered, with
\* the redirect URI of the trusted or of a per-issuer client.
AuthUrlClients ==
  { [issuer |-> i, client_id |-> id,
     redirect_uri |-> redirectUriForIssuer(i, BaseRedirectUri, trusted)]
      : i \in Issuers, id \in {1, 2, PresetClientId}, trusted \in BOOLEAN }

\* One call of authUrl(oidcClient, workflow).
authUrlCall(oidcClient, workflow) ==
  /\ Arrives
  /\ lastAuthUrl' = [client |-> oidcClient, workflow |-> workflow,
                     params |-> authParams(oidcClient, workflow),
                     url |-> authUrl(oidcClient, workflow)]
  /\ UNCHANGED <<tasks, store, trustedClient, regSeq, cfiLog, session, users,
                 ldpAuth, lastRes, authFailures, usersByEmail, creating,
                 lastCreate, authRequest>>

InitAuthUrl ==
  /\ tasks = [t \in 1..MaxInFlight |-> IdleTask]
  /\ store \in {{}, {PersistedTrusted}}
  /\ trustedClient \in {NoClient, PersistedTrusted}
  /\ regSeq = 0
  /\ cfiLog = {}
  /\ ncalls = 0
  /\ session = [s \in SessionIds |-> FreshSession]
  /\ users = {}
  /\ ldpAuth = "oidc"
  /\ lastRes = [s \in SessionIds |-> NoResponse]
  /\ authFailures = {}
  /\ usersByEmail = {}
  /\ creating = NoCreating
  /\ lastCreate = NoOutcome
  /\ lastAuthUrl = NoAuthUrl
  /\ authRequest = NoAuthRequest

NextAuthUrl ==
  \E c \in AuthUrlClients, w \in Workflows : authUrlCall(c, w)

SpecAuthUrl == InitAuthUrl /\ [][NextAuthUrl]_vars

-----------------------------------------------------------------------------
(* The local provider: its authenticate hook on the sessions that signin,    *)
(* signout and the token-based session init write                            *)

SigninUrl == <<"/", "s", "i", "g", "n", "i", "n", "/">>

\* authenticate that issues the session's userId as the subject whatever the
\* session says.
authenticateAlwaysSubject(s) ==
  /\ authRequest' = [sess |-> s, subject |-> session[s].userId]
  /\ UNCHANGED <<tasks, store, trustedClient, regSeq, cfiLog, ncalls, session,
                 users, ldpAuth, lastRes, authFailures, usersByEmail, creating,
                 lastCreate, lastAuthUrl>>

\* host.authenticate(authRequest) of the provider, for a request on session s
\* (part_000 lines 363-380): the subject is the session's userId for an
\* identified session, else null and the request is redirected to /signin/.
authenticate(s) ==
  /\ IF session[s].identified /\ Truthy(session[s].userId)
     THEN /\ authRequest' = [sess |-> s, subject |-> session[s].userId]
          /\ UNCHANGED lastRes
     ELSE /\ authRequest' = [sess |-> s, subject |-> NullSubject]
          /\ Reply(s, Response("authenticate", 302, "", SigninUrl))
  /\ UNCHANGED <<tasks, store, trustedClient, regSeq, cfiLog, ncalls, session,
                 users, ldpAuth, authFailures, usersByEmail, creating,
                 lastCreate, lastAuthUrl>>

InitProvider ==
  /\ tasks = [t \in 1..MaxInFlight |-> IdleTask]
  /\ store = {PersistedTrusted}
  /\ trustedClient = PersistedTrusted
  /\ regSeq = 0
  /\ cfiLog = {}
  /\ ncalls = 0
  /\ session = [s \in SessionIds |-> FreshSession]
  /\ users = UsersPut({}, normalizeWebIdKey(Alice),
               UserRecord(Alice, Undefined, Undefined,
                          BcryptHash(PwGood, "salt")))
  /\ ldpAuth = "oidc"
  /\ lastRes = [s \in SessionIds |-> NoResponse]
  /\ authFailures = {}
  /\ usersByEmail = {}
  /\ creating = NoCreating
  /\ lastCreate = NoOutcome
  /\ lastAuthUrl = NoAuthUrl
  /\ authRequest = NoAuthRequest

NextProvider ==
  \/ \E t \in TaskIds, s \in Sessions, u \in {<<>>, Alice, Bob},
        p \in {<<>>, PwGood, PwBad} : signin(t, s, u, p)
  \/ \E t \in TaskIds : SigninFindUser(t)
  \/ \E t \in TaskIds : SigninMatchPassword(t)
  \/ \E t \in TaskIds : SigninError(t)
  \/ \E s \in Sessions, w \in {Undefined, Alice} : authSessionInit(s, w)
  \/ \E t \in TaskIds, s \in Sessions : signout(t, s)
  \/ \E s \in Sessions : authenticate(s)

SpecProvider == InitProvider /\ [][NextProvider]_vars

-----------------------------------------------------------------------------
(* Two sessions on one server: requests on distinct sessions interleave and  *)
(* share the stored client of the trusted issuer                             *)

TwoSessionIds == {"s1", "s2"}

\* The path segment of a callback for the trusted issuer, as the provider
\* sends it.
TrustedSegment == EncodeURIComponent(TrustedIssuer)

InitIsolation ==
  /\ tasks = [t \in 1..(MaxInFlight + 1) |-> IdleTask]
  /\ store = {PersistedTrusted}
  /\ trustedClient = PersistedTrusted
  /\ regSeq = 0
  /\ cfiLog = {}
  /\ ncalls = 0
  /\ session = [s \in TwoSessionIds |-> FreshSession]
  /\ users = UsersPut({}, normalizeWebIdKey(Alice),
               UserRecord(Alice, Undefined, Undefined,
                          BcryptHash(PwGood, "salt")))
  /\ ldpAuth = "oidc"
  /\ lastRes = [s \in TwoSessionIds |-> NoResponse]
  /\ authFailures = {}
  /\ usersByEmail = {}
  /\ creating = NoCreating
  /\ lastCreate = NoOutcome
  /\ lastAuthUrl = NoAuthUrl
  /\ authRequest = NoAuthRequest

NextIsolation ==
  \/ \E t \in TaskIds, s \in Sessions, p \in {PwGood, PwBad} :
        signin(t, s, Alice, p)
  \/ \E t \in TaskIds : SigninFindUser(t)
  \/ \E t \in TaskIds : SigninMatchPassword(t)
  \/ \E t \in TaskIds : SigninError(t)
  \/ \E t \in TaskIds, s \in Sessions :
        authCodeFlowCallback(t, s, TrustedSegment)
  \/ \E t \in TaskIds, s \in Sessions :
        authCodeFlowCallbackRp(t, s, TrustedSegment)
  \/ \E t \in TaskIds, r \in TokenResults : CodeExchanged(t, r)
  \/ \E t \in TaskIds : CallbackValidated(t)
  \/ \E t \in TaskIds : CallbackTokens(t)
  \/ \E t \in TaskIds : CallbackExchangeFail(t)
  \/ \E t \in TaskIds, s \in Sessions : signout(t, s)
  \/ \E t \in TaskIds : SignoutUpstreamSettled(t)
  \/ \E t \in TaskIds : GetResolve(t)
  \/ \E t \in TaskIds : GetReject(t)

SpecIsolation == InitIsolation /\ [][NextIsolation]_vars

-----------------------------------------------------------------------------
(* The account store on its own (lib/user-store.js): createUser chains *)

normalizeEmailKey(email) == EncodeURIComponent(email)

\* hashPassword that stores what it was given.
hashPasswordPlain(plaintextPassword, salt) ==
  [salt |-> salt, digest |-> plaintextPassword]

\* hashPassword resolves to bcrypt.hash(plaintextPassword, saltRounds); salt is
\* the salt bcrypt generated.
hashPassword(plaintextPassword, salt) == BcryptHash(plaintextPassword, salt)

\* 72 bytes of padding, to build passwords longer than bcrypt reads.
Pad == [i \in 1..BcryptMaxBytes |-> "x"]
PwLong      == Pad \o <<"a">>
PwLongOther == Pad \o <<"b">>

EmailLower == <<"a", "@", "b">>
EmailUpper == <<"A", "@", "b">>

\* The arguments of createUser; Undefined is a field that is missing.
WebIds    == {Undefined, Alice, Bob}
Passwords == {Undefined, PwGood, PwLong}
Emails    == {Undefined, EmailLower, EmailUpper}
Salts     == {"salt"}

CreateOptions ==
  [password : Passwords, email : Emails, name : {Undefined}]

CreateSlots == DOMAIN creating

FreeCreate(c) ==
  /\ creating[c].pc = "idle"
  /\ \A d \in CreateSlots : d < c => creating[d].pc # "idle"

\* The variables the account store never touches.
serverVars == <<tasks, store, trustedClient, regSeq, cfiLog, session,
                ldpAuth, lastRes, authFailures, lastAuthUrl, authRequest>>

\* The promise of chain c settles.
Settle(c, outcome) ==
  /\ creating' = [creating EXCEPT ![c] = IdleCreate]
  /\ lastCreate' = outcome

\* The promise of chain c rejects with an error of the store or of bcrypt,
\* which carries no status.
CreateRejected(c) ==
  Settle(c, Outcome("rejected", 0, creating[c].webId, creating[c].password,
                    "undefined", NoUser))

\* createUser without its two checks.
createUserUnchecked(c, webId, options) ==
  /\ Arrives
  /\ FreeCreate(c)
  /\ creating' = [creating EXCEPT ![c] =
        [pc |-> "hash", webId |-> webId, password |-> options.password,
         user |-> UserRecord(webId, options.email, options.name, NoHash)]]
  /\ UNCHANGED <<lastCreate, users, usersByEmail, serverVars>>

\* createUser, synchronous part (lines 99-115): the two checks, the user
\* object, the call of hashPassword.
createUser(c, webId, options) ==
  /\ Arrives
  /\ IF ~Truthy(webId) \/ ~Truthy(options.password)
     THEN /\ lastCreate' = Outcome("rejected", 400, webId, options.password,
                                   "undefined", NoUser)
          /\ UNCHANGED creating
     ELSE /\ FreeCreate(c)
          /\ creating' = [creating EXCEPT ![c] =
                [pc |-> "hash", webId |-> webId, password |-> options.password,
                 user |-> UserRecord(webId, options.email, options.name, NoHash)]]
          /\ UNCHANGED lastCreate
  /\ UNCHANGED <<users, usersByEmail, serverVars>>

\* hashPassword resolves; the first .then (lines 116-120) starts the write of
\* the user record.
HashResolved(c, salt) ==
  /\ creating[c].pc = "hash"
  /\ creating' = [creating EXCEPT
        ![c].pc = "putUser",
        ![c].user.hashedPassword = hashPassword(creating[c].password, salt)]
  /\ UNCHANGED <<lastCreate, users, usersByEmail, ncalls, serverVars>>

\* bcrypt.hash fails (lines 142-143).
HashRejected(c) ==
  /\ creating[c].pc = "hash"
  /\ CreateRejected(c)
  /\ UNCHANGED <<users, usersByEmail, ncalls, serverVars>>

\* store.put('users', userKey, user) resolves; the second .then (lines
\* 121-127) starts the write of the index entry when the user has an email,
\* and returns nothing when the user has none.
PutUserOk(c) ==
  /\ creating[c].pc = "putUser"
  /\ users' = UsersPut(users, normalizeWebIdKey(creating[c].webId),
                       creating[c].user)
  /\ IF Truthy(creating[c].user.email)
     THEN /\ creating' = [creating EXCEPT ![c].pc = "putEmail"]
          /\ UNCHANGED lastCreate
     ELSE Settle(c, Outcome("resolved", 0, creating[c].webId,
                            creating[c].password, "undefined", NoUser))
  /\ UNCHANGED <<usersByEmail, ncalls, serverVars>>

PutUserFail(c) ==
  /\ creating[c].pc = "putUser"
  /\ CreateRejected(c)
  /\ UNCHANGED <<users, usersByEmail, ncalls, serverVars>>

\* store.put('users-by-email', key, userByEmail) resolves, to value: nothing
\* or the entry it wrote; createUser resolves to the same.
PutEmailOk(c, value) ==
  /\ creating[c].pc = "putEmail"
  /\ usersByEmail' = UsersPut(usersByEmail,
                              normalizeEmailKey(creating[c].user.email),
                              [webId |-> creating[c].webId])
  /\ Settle(c, Outcome("resolved", 0, creating[c].webId,
                       creating[c].password, value, NoUser))
  /\ UNCHANGED <<users, ncalls, serverVars>>

\* PutEmailFail with the error swallowed: the promise resolves.
PutEmailFailSwallowed(c) ==
  /\ creating[c].pc = "putEmail"
  /\ Settle(c, Outcome("resolved", 0, creating[c].webId,
                       creating[c].password, "undefined", NoUser))
  /\ UNCHANGED <<users, usersByEmail, ncalls, serverVars>>

\* store.put('users-by-email', ...) rejects: nothing catches it, createUser
\* rejects with the error of the store.
PutEmailFail(c) ==
  /\ creating[c].pc = "putEmail"
  /\ CreateRejected(c)
  /\ UNCHANGED <<users, usersByEmail, ncalls, serverVars>>

InitStore ==
  /\ tasks = << >>
  /\ store = {}
  /\ trustedClient = NoClient
  /\ regSeq = 0
  /\ cfiLog = {}
  /\ ncalls = 0
  /\ session = NoSessions
  /\ users = {}
  /\ ldpAuth = "oidc"
  /\ lastRes = NoSessions
  /\ authFailures = {}
  /\ usersByEmail = {}
  /\ creating = [c \in 1..MaxInFlight |-> IdleCreate]
  /\ lastCreate = NoOutcome
  /\ lastAuthUrl = NoAuthUrl
  /\ authRequest = NoAuthRequest

NextStore ==
  \/ \E c \in CreateSlots, w \in WebIds, o \in CreateOptions : createUser(c, w, o)
  \/ \E c \in CreateSlots, salt \in Salts : HashResolved(c, salt)
  \/ \E c \in CreateSlots : HashRejected(c)
  \/ \E c \in CreateSlots : PutUserOk(c)
  \/ \E c \in CreateSlots : PutUserFail(c)
  \/ \E c \in CreateSlots, v \in {"undefined", "index"} : PutEmailOk(c, v)
  \/ \E c \in CreateSlots : PutEmailFail(c)

SpecStore == InitStore /\ [][NextStore]_vars

-----------------------------------------------------------------------------
(* Properties *)

Acts(t) == tasks'[t] # tasks[t]

CallbackKinds == {"callback", "callbackRp"}

\* The chain of task t is inside the registration protocol (initClient).
Registering(t) == tasks[t].pc \in {"initProvider", "register", "put"}

\* C1: single-flight registration. For every issuer, at most one of the
\* clientForIssuer calls in flight runs the registration protocol
\* (initClient / client.register), and the callers that were answered for one
\* issuer all received the same client record.
C1_SingleFlightRegistration ==
  \A i \in Issuers :
    /\ Cardinality({t \in TaskIds : /\ tasks[t].kind = "cfi"
                                   /\ tasks[t].issuer = i
                                   /\ Registering(t)}) <= 1
    /\ Cardinality({e.client : e \in {x \in cfiLog : x.ok /\ x.issuer = i}}) <= 1

\* C2: in every reachable state, two clientForIssuer calls for the same issuer
\* that both returned a client never returned two different client records.
C2_OneRecordPerIssuer ==
  \A e1, e2 \in cfiLog :
    (e1.ok /\ e2.ok /\ e1.issuer = e2.issuer) => e1.client = e2.client

\* C3: session invariant. In every state reached by signin, callback,
\* token-based session init and signout, a session with identified = true has
\* a userId that is present and non-empty.
C3_IdentifiedHasUserId ==
  \A s \in Sessions : session[s].identified => Truthy(session[s].userId)

\* The code exchange of task t's callback succeeded with a valid token
\* response, and the handler is about to bind the session.
Binding(t) ==
  /\ tasks[t].kind \in CallbackKinds
  /\ tasks[t].pc = "exchanged"
  /\ tasks[t].result.id_claims

C5_CallbackBindsSession ==
  [][\A t \in TaskIds :
       (Binding(t) /\ Acts(t))
         => LET s == tasks[t].sess
                r == tasks[t].result
            IN /\ session'[s].accessToken = r.access_token
               /\ session'[s].refreshToken = r.refresh_token
               /\ session'[s].userId = r.sub
               /\ session'[s].identified
               /\ tasks'[t] = IdleTask
               /\ lastRes'[s].handler = "resumeUserFlow"]_vars

\* C5 witness: a callback for the other issuer was bound and resumed.
C5_Witness ==
  \E s \in Sessions :
    /\ lastRes[s].handler = "resumeUserFlow"
    /\ session[s].accessToken = AccessTok
    /\ session[s].refreshToken = RefreshTok
    /\ session[s].userId = Alice
    /\ session[s].identified

\* C6: a callback request without an issuer id in its path never calls the
\* client registry: no callback chain (each starts with clientForIssuer)
\* exists for a request whose issuer id is missing.
C6_MissingIssuerIdNoLookup ==
  \A t \in TaskIds :
    tasks[t].kind \in CallbackKinds => Truthy(tasks[t].issuerId)

\* The credentials of task t's signin request are valid: the account exists
\* and the password matches its stored hash.
ValidCredentials(t) ==
  /\ findUser(tasks[t].username) # NoUser
  /\ BcryptCompare(tasks[t].password,
                   findUser(tasks[t].username).hashedPassword)

\* C7: a signin whose username has an account and whose password matches the
\* stored hash ends (unless the store or bcrypt itself fails) with
\* session.identified = true and session.userId = the account's id.
C7_SigninBindsSession ==
  [][\A t \in TaskIds :
       (/\ tasks[t].kind = "signin"
        /\ tasks'[t] = IdleTask
        /\ ValidCredentials(t)
        /\ lastRes'[tasks[t].sess].status # 500)
         => /\ session'[tasks[t].sess].identified
            /\ session'[tasks[t].sess].userId = findUser(tasks[t].username).id
            /\ lastRes'[tasks[t].sess] = Response("signin", 302, "", AuthorizeUrl)]_vars

\* C7 witness: Alice has signed in.
C7_Witness ==
  \E s \in Sessions :
    /\ lastRes[s] = Response("signin", 302, "", AuthorizeUrl)
    /\ session[s].identified
    /\ session[s].userId = Alice

\* C8: a signin that fails for its credentials (no account, or a password
\* that does not match) answers with an error and leaves the whole session,
\* userId and identified included, as it was.
C8_FailedSigninKeepsSession ==
  [][\A t \in TaskIds :
       (/\ tasks[t].kind = "signin"
        /\ tasks'[t] = IdleTask
        /\ ~ValidCredentials(t))
         => /\ session' = session
            /\ lastRes'[tasks[t].sess].handler = "signin"
            /\ lastRes'[tasks[t].sess].status \in {400, 500}]_vars

\* C8 witness: a signin was refused for its credentials on a session that was
\* identified, and the session still is.
C8_Witness ==
  \E s \in Sessions :
    /\ lastRes[s] \in {f.response : f \in authFailures}
    /\ session[s].identified
    /\ session[s].userId = Alice

\* C9: two signin requests with the same password, refused for their
\* credentials (one for an unknown username, one for a wrong password), get
\* the same answer: same status, same message.
C9_UniformRefusal ==
  \A f1, f2 \in authFailures :
    f1.password = f2.password => f1.response = f2.response

\* C10: signout completes locally. Whenever the last answer on a session is
\* signout's, it is the redirect to the signed-out page and the session has
\* userId cleared and identified = false; and no step of the upstream
\* sign-out chain (client lookup, registration, the upstream call settling or
\* failing) changes the session or the answer.
C10_SignoutCompletesLocally ==
  /\ [](\A s \in Sessions :
          lastRes[s].handler = "signout"
            => /\ lastRes[s] = Response("signout", 302, "", SignedOutUrl)
               /\ session[s].userId = <<>>
               /\ ~session[s].identified)
  /\ [][\A t \in TaskIds :
         (tasks[t].kind = "signout" /\ Acts(t))
           => session' = session /\ lastRes' = lastRes]_vars

\* C10 witness: signout has answered and cleared a session that was bound by
\* a callback, while its upstream sign-out is still pending.
C10_Witness ==
  \E s \in Sessions, t \in TaskIds :
    /\ tasks[t].kind = "signout"
    /\ tasks[t].sess = s
    /\ lastRes[s].handler = "signout"
    /\ session[s].userId = <<>>
    /\ ~session[s].identified
    /\ Truthy(session[s].accessToken)

\* C11: a callback that binds a session for issuer I leaves in the session
\* the ID token and the issuer I that signout needs, and a signout on a
\* session that holds them (an identified session being cleared) starts the
\* upstream sign-out chain at the client of that issuer.
C11_SignoutReachesIssuer ==
  /\ [][\A t \in TaskIds :
         (Binding(t) /\ Acts(t))
           => /\ Truthy(session'[tasks[t].sess].idToken)
              /\ session'[tasks[t].sess].issuer = tasks[t].issuer]_vars
  /\ [][\A s \in Sessions :
         (/\ session[s].identified /\ ~session'[s].identified
          /\ Truthy(session[s].idToken) /\ ldpAuth = "oidc")
           => \E t \in TaskIds :
                /\ tasks[t].kind = "idle"
                /\ tasks'[t].kind = "signout"
                /\ tasks'[t].sess = s
                /\ tasks'[t].issuer = session[s].issuer]_vars

\* C12: signout clears the session. While the last answer on a session is
\* signout's, the session holds no accessToken, idToken, refreshToken or
\* issuer, and userId and identified are cleared.
C12_SignoutClearsSession ==
  \A s \in Sessions :
    lastRes[s].handler = "signout"
      => /\ ~Truthy(session[s].accessToken)
         /\ ~Truthy(session[s].idToken)
         /\ ~Truthy(session[s].refreshToken)
         /\ ~Truthy(session[s].issuer)
         /\ ~Truthy(session[s].userId)
         /\ ~session[s].identified

\* C13: a failed registration leaves nothing behind. When provider discovery
\* or dynamic registration rejects inside a clientForIssuer call, the call
\* rejects and the client store is as it was; the store never holds a client
\* without a client id; and a clientForIssuer call whose lookup finds no
\* record for its issuer starts a fresh registration (or rejects on a
\* storage error): it is never answered from a cached failure.
C13_FailedRegistrationLeavesNothing ==
  /\ [](\A c \in store : c.client_id # 0)
  /\ [][\A t \in TaskIds :
         (/\ tasks[t].kind = "cfi"
          /\ tasks[t].pc \in {"initProvider", "register"}
          /\ tasks'[t] = IdleTask)
           => /\ store' = store
              /\ cfiLog' = cfiLog \cup {LogEntry(t, FALSE, NoClient)}]_vars
  /\ [][\A t \in TaskIds :
         (/\ tasks[t].kind = "cfi"
          /\ tasks[t].pc = "get"
          /\ ClientsGet(tasks[t].issuer) = NoClient
          /\ Acts(t))
           => \/ /\ tasks'[t].pc = "initProvider"
                 /\ tasks'[t].client.issuer = tasks[t].issuer
                 /\ tasks'[t].client.client_id = 0
              \/ /\ tasks'[t] = IdleTask
                 /\ cfiLog' = cfiLog \cup {LogEntry(t, FALSE, NoClient)}]_vars

\* C13 witness: a clientForIssuer call for an issuer has rejected, the store
\* holds no record for the issuer, and another call for it is in provider
\* discovery.
C13_Witness ==
  \E i \in Issuers, t \in TaskIds :
    /\ [issuer |-> i, ok |-> FALSE, client |-> NoClient] \in cfiLog
    /\ ClientsGet(i) = NoClient
    /\ tasks[t].kind = "cfi"
    /\ tasks[t].issuer = i
    /\ tasks[t].pc = "initProvider"
    /\ \A u \in TaskIds \ {t} : tasks[u].kind \in {"idle", "ensure"}

Resolves(c) ==
  /\ creating[c].pc # "idle"
  /\ creating'[c].pc = "idle"
  /\ lastCreate'.status = "resolved"

\* Candidate passwords tried against a stored account.
Candidates == {<<>>, PwGood, PwBad, PwLong, PwLongOther}

\* C15: round trip. When createUser(webId, {password: p}) resolves, findUser
\* (webId) returns a record for which matchPassword resolves to the user for p
\* and to no user for every other candidate, the empty string included.
C15_PasswordRoundTrip ==
  [][\A c \in CreateSlots :
       Resolves(c)
         => LET u == (findUser(lastCreate.webId))'
                p == creating[c].password
            IN /\ u # NoUser
               /\ \A cand \in Candidates :
                    (matchPassword(u, cand) # NoUser) <=> (cand = p)]_vars

LowerChar(c) ==
  CASE c = "A" -> "a"
    [] c = "B" -> "b"
    [] OTHER   -> c

SameButCase(e1, e2) ==
  /\ Len(e1) = Len(e2)
  /\ \A i \in 1..Len(e1) : LowerChar(e1[i]) = LowerChar(e2[i])

\* C17: the email index key is case-insensitive. Two stored accounts whose
\* emails differ only in letter case have the same users-by-email key.
C17_EmailKeyIgnoresCase ==
  \A x, y \in users :
    (/\ Truthy(x.value.email) /\ Truthy(y.value.email)
     /\ SameButCase(x.value.email, y.value.email))
      => normalizeEmailKey(x.value.email) = normalizeEmailKey(y.value.email)

\* C18: the account store never holds a plaintext password. No field of a
\* record of the users collection (id, email, name, the stored hash) and no
\* key or field of the users-by-email collection equals a password given to
\* createUser.
C18_NoPlaintextPassword ==
  \A p \in Passwords \ {Undefined} :
    /\ \A e \in users :
         /\ e.key # p
         /\ e.value.id # p
         /\ e.value.email # p
         /\ e.value.name # p
         /\ e.value.hashedPassword.digest # p
    /\ \A e \in usersByEmail :
         /\ e.key # p
         /\ e.value.webId # p

\* C18 witness: createUser has stored an account for the password PwGood,
\* and the record holds its bcrypt hash.
C18_Witness ==
  /\ lastCreate.status = "resolved"
  /\ lastCreate.password = PwGood
  /\ (findUser(lastCreate.webId)).hashedPassword = BcryptHash(PwGood, "salt")

\* C19: when createUser resolves, with or without an email, the value it
\* resolves to is the user record that was stored for the WebID.
C19_CreateUserResolvesToRecord ==
  [][\A c \in CreateSlots :
       Resolves(c)
         => /\ lastCreate'.value = "user"
            /\ lastCreate'.user = (findUser(lastCreate.webId))'
            /\ lastCreate'.user # NoUser]_vars

\* C20: issuer discovery stops at the first failure. When the OPTIONS probe
\* has failed (it errored, the response has no Link header, or no oidc.issuer
\* relation), the handler answers 400 and its chain ends: no client lookup,
\* provider discovery or registration is started, the client store and the
\* session stay as they were. That answer is the only one: no response is
\* sent when the probe is started or when it settles.
C20_DiscoveryStopsAtFailure ==
  /\ [][\A t \in TaskIds :
         (tasks[t].kind = "discover" /\ tasks[t].pc \in ProbeFailures /\ Acts(t))
           => /\ tasks' = [tasks EXCEPT ![t] = IdleTask]
              /\ lastRes'[tasks[t].sess].handler = "discover"
              /\ lastRes'[tasks[t].sess].status = 400
              /\ store' = store /\ regSeq' = regSeq /\ cfiLog' = cfiLog
              /\ session' = session]_vars
  /\ [][\A t \in TaskIds :
         (\/ tasks[t].kind = "idle" /\ tasks'[t].kind = "discover"
          \/ tasks[t].kind = "discover" /\ tasks[t].pc = "probe" /\ Acts(t))
           => lastRes' = lastRes]_vars

\* C20 witness: a probe without an oidc.issuer relation was answered with
\* 400, and no chain is pending.
C20_Witness ==
  \E s \in Sessions :
    /\ lastRes[s] = Response("discover", 400,
                             "The URI requested is not a valid endpoint", <<>>)
    /\ \A t \in TaskIds : tasks[t] = IdleTask
    /\ regSeq = 0

\* C21: POST /accounts/discover answers 400 when the webid is not a valid
\* URI, when the probe finds no issuer link, and when oidc auth is disabled;
\* any other error answer of the handler (the client subsystem is not
\* initialized, or failed) has status 500.
C21_DiscoverStatuses ==
  \A s \in Sessions :
    lastRes[s].handler = "discover"
      => /\ lastRes[s].body \in {"This is not a valid URI",
                                 "Did not find a valid endpoint",
                                 "The URI requested is not a valid endpoint",
                                 "Invalid signin method - oidc not enabled"}
              => lastRes[s].status = 400
         /\ lastRes[s].body = "error" => lastRes[s].status = 500

\* C22: callback routing round trip. The redirect URI registered for the
\* trusted issuer is the base redirect URI and for any other issuer I it is
\* base/percent-encoded(I); and a callback that arrives at the redirect URI
\* registered for an issuer is taken by the callback handler, which looks up
\* the client of that same issuer.
C22_CallbackRoutingRoundTrip ==
  /\ [](\A i \in RoutedIssuers :
          RegisteredRedirectUri(i) =
            IF i = TrustedIssuer
            THEN BaseRedirectUri
            ELSE BaseRedirectUri \o <<"/">> \o EncodeURIComponent(i))
  /\ [][\A t \in TaskIds, s \in Sessions, i \in RoutedIssuers :
         (\/ authCodeFlowCallback(t, s, RouteSegment(RegisteredRedirectUri(i)))
          \/ authCodeFlowCallbackRp(t, s, RouteSegment(RegisteredRedirectUri(i))))
           => /\ tasks'[t].kind \in CallbackKinds
              /\ tasks'[t].pc = "get"
              /\ tasks'[t].issuer = i]_vars

C24_ResumeUsesReturnUrlOnce ==
  [][\A t \in TaskIds :
       (/\ tasks[t].kind \in CallbackKinds
        /\ tasks[t].pc = "exchanged"
        /\ tasks[t].result.id_claims
        /\ tasks'[t].kind = "idle")
       => LET s == tasks[t].sess
              saved == session[s].returnToUrl
              tok == session'[s].accessToken
          IN  /\ session'[s].returnToUrl = Undefined
              /\ IF Truthy(saved)
                 THEN /\ lastRes'[s].status = 302
                      /\ lastRes'[s].location =
                           IF Truthy(tok) THEN saved \o AccessTokenParam \o tok
                           ELSE saved
                 ELSE /\ lastRes'[s].status # 302
                      /\ lastRes'[s].body = "Resume User Flow (failed)"
                      /\ lastRes'[s].location = <<>>]_vars

C24_Witness ==
  \E s \in Sessions :
    /\ lastRes[s].handler = "resumeUserFlow"
    /\ lastRes[s].status = 302
    /\ lastRes[s].location = ReturnUrl \o AccessTokenParam \o AccessTok
    /\ session[s].returnToUrl = Undefined
    /\ session[s].accessToken = AccessTok

\* How far the promise chain of a request has come.
ChainStage(pc) ==
  CASE pc = "idle" -> 0
    [] pc = "get" -> 1
    [] pc = "initProvider" -> 2
    [] pc = "register" -> 3
    [] pc = "put" -> 4
    [] pc \in {"validate", "token"} -> 5
    [] pc = "exchanged" -> 6
    [] OTHER -> 7

\* C25: no automatic retry. The chain of one request only moves forward, so
\* it runs the registration and the code exchange at most once each; a chain
\* that fails ends there, and a chain starts only when a new request arrives.
\* Successful registrations never outnumber the requests.
C25_NoAutomaticRetry ==
  /\ [](regSeq <= ncalls)
  /\ [][\A t \in TaskIds :
         Acts(t) =>
           /\ tasks[t].kind = "idle" => ncalls' = ncalls + 1
           /\ tasks[t].kind # "idle" =>
                \/ tasks'[t] = IdleTask
                \/ /\ tasks'[t].kind = tasks[t].kind
                   /\ ChainStage(tasks'[t].pc) > ChainStage(tasks[t].pc)
           /\ (/\ tasks[t].pc \in {"register", "validate", "token"}
               /\ tasks'[t].pc \notin {"put", "exchanged"})
                => tasks'[t] = IdleTask /\ ncalls' = ncalls]_vars

C25_Witness ==
  \E t \in TaskIds :
    /\ tasks[t].kind \in CallbackKinds
    /\ tasks[t].pc = "exchanged"
    /\ tasks[t].client.client_id = 1
    /\ regSeq = 1
    /\ ncalls = 1

\* C26: when the write of the users-by-email entry fails after the user record
\* was written, createUser rejects with the storage error, the failure leaves
\* the account store as it is, and findUser still reads a record with a
\* password hash for the WebID.
C26_IndexFailurePropagates ==
  [][\A c \in CreateSlots :
       PutEmailFail(c)
         => /\ lastCreate'.status = "rejected"
            /\ lastCreate'.webId = creating[c].webId
            /\ users' = users
            /\ usersByEmail' = usersByEmail
            /\ LET u == (findUser(lastCreate.webId))' IN
                 /\ u # NoUser
                 /\ u.id = creating[c].webId
                 /\ u.hashedPassword # NoHash]_vars

C26_Witness ==
  /\ lastCreate.status = "rejected"
  /\ usersByEmail = {}
  /\ findUser(lastCreate.webId) # NoUser
  /\ Truthy(findUser(lastCreate.webId).email)

\* C27: when the chain of ensureTrustedClient(config) finishes without an
\* error, because the client was found in the store or because it was
\* initialized and stored, the store holds a client for config.issuer and
\* trustedClient is that client.
C27_EnsureSetsTrustedClient ==
  [][\A t \in TaskIds :
       (/\ tasks[t].kind = "ensure"
        /\ GetResolve(t) \/ PutOk(t)
        /\ tasks'[t].kind = "idle")
       => /\ (ClientsGet(TrustedIssuer))' # NoClient
          /\ trustedClient' = (ClientsGet(TrustedIssuer))']_vars

\* C28: no startup race on the trusted client. A clientForIssuer call for the
\* trusted issuer, also one made while ensureTrustedClient is in flight,
\* takes the issuer as trusted and the configured base redirect URI as its
\* base, and every client it yields for the trusted issuer has exactly the
\* base redirect URI.
C28_NoStartupRace ==
  /\ [][\A t \in TaskIds :
         clientForIssuer(t, TrustedIssuer)
           => /\ tasks'[t].trusted
              /\ tasks'[t].base = BaseRedirectUri]_vars
  /\ [](\A e \in cfiLog :
          (e.ok /\ e.issuer = TrustedIssuer)
            => e.client.redirect_uri = BaseRedirectUri)

\* The chain of task t, in this step, matches the password of the account it
\* found and writes that account's id to session s.
PasswordMatched(t, s) ==
  /\ tasks[t].kind = "signin"
  /\ tasks[t].pc = "matchPassword"
  /\ tasks[t].sess = s
  /\ tasks[t].user # NoUser
  /\ BcryptCompare(tasks[t].password, tasks[t].user.hashedPassword)
  /\ session'[s].userId = tasks[t].user.id

\* The chain of task t, in this step, binds session s after its code exchange
\* with the client of the callback's issuer succeeded.
ExchangeVerified(t, s) ==
  /\ tasks[t].kind \in CallbackKinds
  /\ tasks[t].pc = "exchanged"
  /\ tasks[t].sess = s
  /\ tasks[t].result.id_claims
  /\ tasks[t].client.issuer = tasks[t].issuer

\* C29: a session becomes identified only at the end of a verified flow.
\* Every step in which session.identified goes from false to true is the
\* last step of a request that matched the password of the account whose id
\* it writes, or that exchanged the code with the client of the callback's
\* issuer.
C29_IdentifiedOnlyAfterVerifiedFlow ==
  [][\A s \in Sessions :
       (~session[s].identified /\ session'[s].identified)
         => \E t \in TaskIds :
              PasswordMatched(t, s) \/ ExchangeVerified(t, s)]_vars

\* C30: the provider's authenticate hook yields a subject exactly for
\* identified sessions. The subject is the session's userId when the session
\* is identified and has a non-empty userId; otherwise the subject is null
\* and the request is redirected to the signin page. The hook leaves the
\* session alone. Right after a signin the subject is the WebID that signed
\* in, right after a signout there is none.
C30_SubjectOnlyForIdentified ==
  [][\A s \in Sessions :
       authenticate(s)
         => LET sub == authRequest'.subject IN
            /\ session' = session
            /\ sub # NullSubject
                 <=> (session[s].identified
                        /\ session[s].userId \notin {Undefined, <<>>})
            /\ sub # NullSubject
                 => sub = session[s].userId /\ lastRes' = lastRes
            /\ sub = NullSubject
                 => lastRes'[s] = Response("authenticate", 302, "", SigninUrl)
            /\ lastRes[s] = Response("signin", 302, "", AuthorizeUrl)
                 => sub \in {Alice, Bob} /\ findUser(sub) # NoUser
            /\ lastRes[s].handler = "signout" => sub = NullSubject]_vars

C30_Witness ==
  \E s \in Sessions :
    /\ authRequest = [sess |-> s, subject |-> NullSubject]
    /\ lastRes[s] = Response("authenticate", 302, "", SigninUrl)
    /\ session[s].subject = Alice
    /\ session[s].userId = <<>>
    /\ ~session[s].identified

\* C31: index consistency. Whenever no createUser call is in flight, every
\* users-by-email entry points to an account that exists in the users
\* collection and whose stored email is the email of the entry.
C31_IndexConsistent ==
  (\A c \in CreateSlots : creating[c].pc = "idle")
    => \A e \in usersByEmail :
         LET u == findUser(e.value.webId) IN
         /\ u # NoUser
         /\ Truthy(u.email)
         /\ normalizeEmailKey(u.email) = e.key

\* C32: session isolation. A step of signin, of the callback or of signout
\* changes at most one session, and that session is the one of the request
\* that takes the step: the session of the chain that acts, or the session
\* signout answers on. The same holds for the responses.
C32_SessionIsolation ==
  [][\A s \in Sessions :
       (session'[s] # session[s] \/ lastRes'[s] # lastRes[s])
         => /\ \A o \in Sessions \ {s} :
                 session'[o] = session[o] /\ lastRes'[o] = lastRes[o]
            /\ \/ \E t \in TaskIds : tasks[t].sess = s /\ Acts(t)
               \/ /\ ncalls' = ncalls + 1
                  /\ lastRes'[s].handler \in {"signout", "signin", "callback"}]_vars

\* C32 witness: both sessions have been written by their own requests, "s2"
\* by a callback that used the shared client of the trusted issuer, "s1" by
\* a signin.
C32_Witness ==
  /\ session["s1"].identified
  /\ session["s1"].subject = Alice
  /\ session["s1"].oidcClient = NoClient
  /\ session["s2"].identified
  /\ session["s2"].oidcClient = PersistedTrusted
  /\ session["s2"].accessToken = AccessTok
  /\ session["s2"].subject = Undefined

====
